---- MODULE Spec2Model ----
(***************************************************************************)
(* hd-idle: the idle-detection and spin-down decision engine of            *)
(* src/hdidle.go.  One polling cycle is ObserveDiskActivity: it takes a    *)
(* snapshot of the disk counters, reads the clock into `now`, resolves the *)
(* configured symlinks, calls updateState for every snapshot entry in      *)
(* order and finally stores now into lastNow.                              *)
(*                                                                         *)
(* Time is an integer number of ticks.  Every call of time.Now() reads a   *)
(* clock that never runs backwards.  The external collaborators            *)
(* (diskstats.Snapshot, io.RealPath, sgio.Stop*Device, the log file) are   *)
(* inputs chosen by the environment.                                       *)
(***************************************************************************)
EXTENDS Integers, Sequences, FiniteSets, TLC

----------------------------------------------------------------------------
(* Bounds of the model *)

\* the clock is read up to this tick on a host with one disk, and up to
\* ShortTime on a host with two disks or with configured overrides
LongTime == 6
ShortTime == 2
\* the largest gap between two consecutive cycles
MaxStep == 2
\* the largest number of entries of one snapshot
MaxSnap == 2
\* the largest number of operations a disk's counters show
MaxCount == 1
\* the largest configured idle threshold
MaxIdle == 2

\* device names, and the symbolic names of the overrides
Names == {"sda", "sdb"}
GivenNames == {"disk/by-id/x"}
\* the configured skew times
SkewTimes == {1}
\* how far the clock advances between two readings inside initDevice
Drifts == {0, 1}

----------------------------------------------------------------------------
(* Program constants *)

SCSI == "scsi"
ATA == "ata"
\* the protocols a configuration names as CommandType
Commands == {SCSI, ATA}

\* the zero value of time.Time, which precedes every clock reading
ZeroTime == -1

Min(a, b) == IF a < b THEN a ELSE b

----------------------------------------------------------------------------
(* State *)

VARIABLES
    host,               \* the machine: its disks and how long it is observed
    config,             \* *Config: [Devices, Defaults, SkewTime]
    previousSnapshots,  \* []diskstats.DiskStats, the per-device runtime states
    now,                \* var now
    lastNow,            \* var lastNow
    clock,              \* the latest reading time.Now() has returned
    pc,                 \* "idle": between two cycles; "update": inside the
                        \* loop of ObserveDiskActivity; "dead": after log.Fatalf
    actualSnapshot,     \* the snapshot of the running cycle
    idx,                \* position of the loop in actualSnapshot (1-based)
    events,             \* what the running cycle has emitted so far, in order
    lastStop,           \* per device name: result of the last stop command
                        \* since its stored counters last changed
    lookups             \* per device name: the calls of deviceConfig so far

vars == <<host, config, previousSnapshots, now, lastNow, clock, pc, actualSnapshot,
          idx, events, lastStop, lookups>>

\* one emitted effect: a log line handed to logToFile (kind "symlink",
\* "spinup", "skew"; ok = the line was appended to the file) or a stop
\* command handed to sgio (kind "stop"; cmd = protocol, ok = it succeeded)
Event(kind, dev, cmd, ok) == [kind |-> kind, dev |-> dev, cmd |-> cmd, ok |-> ok]

----------------------------------------------------------------------------
(* Configuration and environment *)

DeviceConfs ==
    [Name : Names \cup {""}, GivenName : GivenNames,
     Idle : 0..MaxIdle, CommandType : Commands]

DefaultConfs ==
    [Idle : 0..MaxIdle, CommandType : Commands,
     LogFile : {"", "hd-idle.log"}, SymlinkPolicy : {0, 1}]

Configs ==
    [Devices : {<<>>} \cup {<<d>> : d \in DeviceConfs},
     Defaults : DefaultConfs,
     SkewTime : SkewTimes]

\* the hosts explored: one disk over a long time without overrides, two
\* disks over a short time without overrides, one disk over a short time
\* with one override
TimelineHosts ==
    {[disks |-> {"sda"}, horizon |-> LongTime, config |-> c] :
        c \in {c \in Configs : /\ c.Devices = <<>>
                                /\ c.Defaults.Idle \in 0..MaxIdle
                                /\ c.Defaults.CommandType = SCSI
                                /\ c.Defaults.SymlinkPolicy = 0}}

TwoDiskHosts ==
    {[disks |-> Names, horizon |-> ShortTime, config |-> c] :
        c \in {c \in Configs : /\ c.Devices = <<>>
                                /\ c.Defaults.Idle = 1
                                /\ c.Defaults.CommandType = ATA
                                /\ c.Defaults.LogFile # ""
                                /\ c.Defaults.SymlinkPolicy = 0}}

OverrideHosts ==
    {[disks |-> {"sda"}, horizon |-> ShortTime, config |-> c] :
        c \in {c \in Configs : /\ c.Devices # <<>>
                                /\ c.Defaults.Idle = 1
                                /\ c.Defaults.LogFile # ""
                                /\ c.Devices[1].CommandType # c.Defaults.CommandType}}

Hosts == TimelineHosts \cup TwoDiskHosts \cup OverrideHosts

\* diskstats.Snapshot(): any sequence of at most MaxSnap entries naming
\* disks of the host
SnapshotEntries(disks) ==
    {e \in [Name : disks, Reads : 0..MaxCount, Writes : 0..MaxCount] :
        e.Reads + e.Writes <= MaxCount}
Snapshots(disks) == UNION {[1..n -> SnapshotEntries(disks)] : n \in 0..MaxSnap}

----------------------------------------------------------------------------
(* The log sink and the stop command *)

\* variant: the errors of the file operations are not looked at
logToFile_IgnoreErrors(file, sinkOK) ==
    IF file = "" THEN "skip"
    ELSE IF sinkOK THEN "ok"
    ELSE "skip"

\* logToFile: nothing is written when no log file is configured; a file
\* that cannot be opened, written or closed ends the process (log.Fatalf)
logToFile(file, sinkOK) ==
    IF file = "" THEN "skip"
    ELSE IF sinkOK THEN "ok"
    ELSE "fatal"

\* variant: every disk is stopped with the SCSI command
spindownDisk_AlwaysScsi(device, command, cmdOK) ==
    <<Event("stop", device, SCSI, cmdOK)>>

\* spindownDisk: the stop commands handed to sgio for `device`
spindownDisk(device, command, cmdOK) ==
    IF command = SCSI THEN <<Event("stop", device, SCSI, cmdOK)>>
    ELSE IF command = ATA THEN <<Event("stop", device, ATA, cmdOK)>>
    ELSE <<>>

----------------------------------------------------------------------------
(* resolveSymlinks *)

\* res[i] is what io.RealPath answers for Devices[i] ("" = an error);
\* failAt is the entry whose log line the sink refuses (0 = none)
\* variant: the loop does not look whether the entry has a name already
RECURSIVE resolveLoop_AnyEntry(_, _, _, _)
resolveLoop_AnyEntry(st, i, res, failAt) ==
    IF st.dead \/ i > Len(st.cfg.Devices) THEN st
    ELSE IF res[i] # ""
         THEN LET out == logToFile(st.cfg.Defaults.LogFile, failAt # i) IN
              resolveLoop_AnyEntry(
                  [cfg  |-> [st.cfg EXCEPT !.Devices[i].Name = res[i]],
                   ev   |-> Append(st.ev, Event("symlink", res[i], "", out = "ok")),
                   dead |-> out = "fatal"],
                  i + 1, res, failAt)
         ELSE resolveLoop_AnyEntry(st, i + 1, res, failAt)

RECURSIVE resolveLoop(_, _, _, _)
resolveLoop(st, i, res, failAt) ==
    IF st.dead \/ i > Len(st.cfg.Devices) THEN st
    ELSE LET device == st.cfg.Devices[i] IN
         IF device.Name = "" /\ res[i] # ""
         THEN LET out == logToFile(st.cfg.Defaults.LogFile, failAt # i) IN
              resolveLoop(
                  [cfg  |-> [st.cfg EXCEPT !.Devices[i].Name = res[i]],
                   ev   |-> Append(st.ev, Event("symlink", res[i], "", out = "ok")),
                   dead |-> out = "fatal"],
                  i + 1, res, failAt)
         ELSE resolveLoop(st, i + 1, res, failAt)

resolveSymlinks(cfg, res, failAt) ==
    IF cfg.Defaults.SymlinkPolicy = 0
    THEN [cfg |-> cfg, ev |-> <<>>, dead |-> FALSE]
    ELSE resolveLoop([cfg |-> cfg, ev |-> <<>>, dead |-> FALSE], 1, res, failAt)

----------------------------------------------------------------------------
(* Device configuration lookup and first sighting *)

\* variant: the scan stops one element early
previousDiskStatsIndex_SkipLast(ps, diskName) ==
    IF \E i \in 1..(Len(ps) - 1) : ps[i].Name = diskName
    THEN (CHOOSE i \in 1..(Len(ps) - 1) :
              /\ ps[i].Name = diskName
              /\ \A j \in 1..(i - 1) : ps[j].Name # diskName) - 1
    ELSE -1

\* index (0-based) of the runtime state named diskName, -1 when there is none
previousDiskStatsIndex(ps, diskName) ==
    IF \E i \in 1..Len(ps) : ps[i].Name = diskName
    THEN (CHOOSE i \in 1..Len(ps) :
              /\ ps[i].Name = diskName
              /\ \A j \in 1..(i - 1) : ps[j].Name # diskName) - 1
    ELSE -1

\* variants: the overrides are ignored; the first override is taken
\* whatever its name
deviceConfig_Defaults(diskName, cfg) ==
    [Name |-> diskName,
     CommandType |-> cfg.Defaults.CommandType,
     Idle |-> cfg.Defaults.Idle]
deviceConfig_AnyName(diskName, cfg) ==
    IF cfg.Devices # <<>>
    THEN [Name |-> cfg.Devices[1].Name,
          CommandType |-> cfg.Devices[1].CommandType,
          Idle |-> cfg.Devices[1].Idle]
    ELSE [Name |-> diskName,
          CommandType |-> cfg.Defaults.CommandType,
          Idle |-> cfg.Defaults.Idle]

\* the first override whose Name is diskName, else an entry made of the defaults
deviceConfig(diskName, cfg) ==
    IF \E i \in 1..Len(cfg.Devices) : cfg.Devices[i].Name = diskName
    THEN LET i == CHOOSE k \in 1..Len(cfg.Devices) :
                      /\ cfg.Devices[k].Name = diskName
                      /\ \A j \in 1..(k - 1) : cfg.Devices[j].Name # diskName
         IN [Name |-> cfg.Devices[i].Name,
             CommandType |-> cfg.Devices[i].CommandType,
             Idle |-> cfg.Devices[i].Idle]
    ELSE [Name |-> diskName,
          CommandType |-> cfg.Defaults.CommandType,
          Idle |-> cfg.Defaults.Idle]

\* t1 and t2 are the two readings of time.Now()
initDevice(stats, cfg, t1, t2) ==
    LET deviceConf == deviceConfig(stats.Name, cfg) IN
    [Name        |-> stats.Name,
     LastIoAt    |-> t1,
     SpinUpAt    |-> t2,
     SpinDownAt  |-> ZeroTime,
     SpunDown    |-> FALSE,
     Writes      |-> stats.Writes,
     Reads       |-> stats.Reads,
     IdleTime    |-> deviceConf.Idle,
     CommandType |-> deviceConf.CommandType]

----------------------------------------------------------------------------
(* updateState *)

\* variant: a gap of exactly the skew time counts as a sleep
SkewDetected_AtThreshold == now - lastNow >= config.SkewTime

\* line 99: the gap since the previous cycle is longer than the skew time
SkewDetected == now - lastNow > config.SkewTime

\* variants of the three tests below, each with one plausible slip
CountersUnchanged_ReadsOnly(ds, tmp) == ds.Reads = tmp.Reads
StillRunning_Always(ds) == TRUE
IdleExpired_AtThreshold(ds) == ds.IdleTime # 0 /\ now - ds.LastIoAt >= ds.IdleTime
IdleExpired_ZeroEnabled(ds) == now - ds.LastIoAt > ds.IdleTime

\* line 109: the snapshot entry carries the stored counters
CountersUnchanged(ds, tmp) == ds.Writes = tmp.Writes /\ ds.Reads = tmp.Reads

\* line 110: the disk is believed to be running
StillRunning(ds) == ~ds.SpunDown

\* lines 112-113: the idle threshold is enabled and exceeded
IdleExpired(ds) == ds.IdleTime # 0 /\ now - ds.LastIoAt > ds.IdleTime

\* variant: a failed stop command leaves the disk marked running
MarkSpunDown_OnSuccess(ps, dsi, cmdOK) ==
    IF cmdOK
    THEN [ps EXCEPT ![dsi + 1].SpinDownAt = now, ![dsi + 1].SpunDown = TRUE]
    ELSE ps

\* lines 115-119: the error of spindownDisk is printed and nothing else; the
\* disk is marked spun down whatever the command returned
MarkSpunDown(ps, dsi, cmdOK) ==
    [ps EXCEPT ![dsi + 1].SpinDownAt = now, ![dsi + 1].SpunDown = TRUE]

\* variant: the reset after a long sleep goes through every runtime state
SkewReset_EveryState(ps, dsi) ==
    [i \in 1..Len(ps) |->
        [ps[i] EXCEPT !.SpinUpAt = now, !.LastIoAt = now, !.SpunDown = FALSE]]

\* variant: the reset after a long sleep builds the state anew
SkewReset_InitAgain(ps, dsi) ==
    [ps EXCEPT ![dsi + 1] = initDevice(ps[dsi + 1], config, now, now)]

\* variant: the reset after a long sleep forgets the idle timer
SkewReset_KeepLastIo(ps, dsi) ==
    [ps EXCEPT ![dsi + 1].SpinUpAt = now,
               ![dsi + 1].SpunDown = FALSE]

\* lines 99-106: the reset after a long sleep
SkewReset(ps, dsi) ==
    [ps EXCEPT ![dsi + 1].SpinUpAt = now,
               ![dsi + 1].LastIoAt = now,
               ![dsi + 1].SpunDown = FALSE]

\* the value of updateState's effects: the runtime states, the events it
\* appends, whether log.Fatalf ended the process, the latest clock reading
\* the stop result to remember ("keep" = no change) and whether deviceConfig
\* was called
updateState(ps, tmp, cfg, t1, t2, cmdOK, sinkOK) ==
    LET dsi == previousDiskStatsIndex(ps, tmp.Name) IN
    IF dsi < 0
    THEN [ps |-> Append(ps, initDevice(tmp, cfg, t1, t2)), ev |-> <<>>,
          dead |-> FALSE, clock |-> t2, stop |-> "keep", looked |-> TRUE]
    ELSE
      LET ps1     == IF SkewDetected THEN SkewReset(ps, dsi) ELSE ps
          skewOut == IF SkewDetected
                     THEN logToFile(cfg.Defaults.LogFile, sinkOK) ELSE "none"
          ev1     == IF SkewDetected
                     THEN <<Event("skew", ps[dsi + 1].Name, "", skewOut = "ok")>>
                     ELSE <<>>
          ds      == ps1[dsi + 1]
      IN
      IF skewOut = "fatal"
      THEN [ps |-> ps1, ev |-> ev1, dead |-> TRUE, clock |-> clock, stop |-> "keep",
            looked |-> FALSE]
      ELSE IF CountersUnchanged(ds, tmp)
      THEN IF StillRunning(ds) /\ IdleExpired(ds)
           THEN [ps |-> MarkSpunDown(ps1, dsi, cmdOK),
                 ev |-> ev1 \o spindownDisk(ds.Name, ds.CommandType, cmdOK),
                 dead |-> FALSE, clock |-> clock,
                 stop |-> IF spindownDisk(ds.Name, ds.CommandType, cmdOK) = <<>>
                          THEN "keep"
                          ELSE IF cmdOK THEN "ok" ELSE "failed",
                 looked |-> FALSE]
           ELSE [ps |-> ps1, ev |-> ev1, dead |-> FALSE, clock |-> clock,
                 stop |-> "keep", looked |-> FALSE]
      ELSE
        LET upOut == IF ds.SpunDown
                     THEN logToFile(cfg.Defaults.LogFile, sinkOK) ELSE "none"
            ev2   == IF ds.SpunDown
                     THEN ev1 \o <<Event("spinup", ds.Name, "", upOut = "ok")>>
                     ELSE ev1
            ps2   == IF ds.SpunDown
                     THEN [ps1 EXCEPT ![dsi + 1].SpinUpAt = now] ELSE ps1
        IN
        IF upOut = "fatal"
        THEN [ps |-> ps1, ev |-> ev2, dead |-> TRUE, clock |-> clock,
              stop |-> "keep", looked |-> FALSE]
        ELSE [ps |-> [ps2 EXCEPT ![dsi + 1].Reads = tmp.Reads,
                                 ![dsi + 1].Writes = tmp.Writes,
                                 ![dsi + 1].LastIoAt = now,
                                 ![dsi + 1].SpunDown = FALSE],
              ev |-> ev2, dead |-> FALSE, clock |-> clock, stop |-> "none",
              looked |-> FALSE]

----------------------------------------------------------------------------
(* Actions *)

Init ==
    /\ \E h \in Hosts :
          /\ host = [disks |-> h.disks, horizon |-> h.horizon]
          /\ config = h.config
    /\ previousSnapshots = <<>>
    /\ now = 0
    /\ lastNow \in Drifts
    /\ clock = lastNow
    /\ pc = "idle"
    /\ actualSnapshot = <<>>
    /\ idx = 1
    /\ events = <<>>
    /\ lastStop = [n \in Names |-> "none"]
    /\ lookups = [n \in Names |-> 0]

\* ObserveDiskActivity, lines 62-65: sample, read the clock, resolve symlinks
BeginCycle ==
    /\ pc = "idle"
    /\ \E snap \in Snapshots(host.disks),
          t \in clock..Min(clock + MaxStep, host.horizon),
          res \in [1..Len(config.Devices) -> Names \cup {""}],
          failAt \in 0..Len(config.Devices) :
          LET r == resolveSymlinks(config, res, failAt) IN
          /\ actualSnapshot' = snap
          /\ now' = t
          /\ clock' = t
          /\ config' = r.cfg
          /\ events' = r.ev
          /\ pc' = IF r.dead THEN "dead" ELSE "update"
    /\ idx' = 1
    /\ UNCHANGED <<host, previousSnapshots, lastNow, lastStop, lookups>>

\* the inputs one call of updateState can consume: a first sighting reads
\* the clock twice and calls neither sgio nor the log sink, every other
\* call may do both and never reads the clock again
ReadsOfClock(tmp) ==
    IF previousDiskStatsIndex(previousSnapshots, tmp.Name) < 0 THEN Drifts ELSE {0}
Outcomes(tmp) ==
    IF previousDiskStatsIndex(previousSnapshots, tmp.Name) < 0 THEN {TRUE} ELSE BOOLEAN

\* ObserveDiskActivity, lines 66-68: one iteration of the loop
UpdateState ==
    /\ pc = "update"
    /\ idx <= Len(actualSnapshot)
    /\ \E d1 \in ReadsOfClock(actualSnapshot[idx]),
          d2 \in ReadsOfClock(actualSnapshot[idx]),
          cmdOK \in Outcomes(actualSnapshot[idx]),
          sinkOK \in Outcomes(actualSnapshot[idx]) :
          LET tmp == actualSnapshot[idx]
              t1  == Min(clock + d1, host.horizon)
              t2  == Min(t1 + d2, host.horizon)
              r   == updateState(previousSnapshots, tmp, config, t1, t2,
                                 cmdOK, sinkOK)
          IN
          /\ previousSnapshots' = r.ps
          /\ events' = events \o r.ev
          /\ clock' = r.clock
          /\ pc' = IF r.dead THEN "dead" ELSE "update"
          /\ lastStop' = IF r.stop = "keep" THEN lastStop
                         ELSE [lastStop EXCEPT ![tmp.Name] = r.stop]
          /\ lookups' = IF r.looked THEN [lookups EXCEPT ![tmp.Name] = @ + 1]
                         ELSE lookups
    /\ idx' = idx + 1
    /\ UNCHANGED <<host, config, now, lastNow, actualSnapshot>>

\* ObserveDiskActivity, lines 69-70: the cycle ends, its snapshot and its
\* trace are dropped
EndCycle ==
    /\ pc = "update"
    /\ idx > Len(actualSnapshot)
    /\ lastNow' = now
    /\ pc' = "idle"
    /\ actualSnapshot' = <<>>
    /\ idx' = 1
    /\ events' = <<>>
    /\ UNCHANGED <<host, config, previousSnapshots, now, clock, lastStop, lookups>>

Next == BeginCycle \/ UpdateState \/ EndCycle

Spec == Init /\ [][Next]_vars

----------------------------------------------------------------------------
(* The same program on a timeline without end *)

\* The program uses its timestamps only through differences (now.Sub, lines
\* 99 and 112), so a run of any length is followed on a relative timeline:
\* every cycle begins at the instant LiveNow and what is stored is moved back
\* by the time that has passed.  An instant more than LiveNow back is kept as
\* 0: it is further back than every idle threshold and than the skew time.
LiveNow == MaxIdle + 2

Rebase(t, d) ==
    IF t = ZeroTime THEN ZeroTime
    ELSE IF t - d < 0 THEN 0
    ELSE t - d

RebaseAll(ps, d) ==
    [i \in 1..Len(ps) |->
        [ps[i] EXCEPT !.LastIoAt = Rebase(@, d),
                      !.SpinUpAt = Rebase(@, d),
                      !.SpinDownAt = Rebase(@, d)]]

\* one disk, no overrides, every idle threshold, with and without a log file
LiveHosts ==
    {[disks |-> {"sda"}, horizon |-> LiveNow + 1, config |-> c] :
        c \in {c \in Configs : /\ c.Devices = <<>>
                                /\ c.Defaults.CommandType = SCSI
                                /\ c.Defaults.SymlinkPolicy = 0}}

LiveInit ==
    /\ \E h \in LiveHosts :
          /\ host = [disks |-> h.disks, horizon |-> h.horizon]
          /\ config = h.config
    /\ previousSnapshots = <<>>
    /\ now = LiveNow
    /\ lastNow \in {LiveNow + d : d \in Drifts}
    /\ clock = lastNow
    /\ pc = "idle"
    /\ actualSnapshot = <<>>
    /\ idx = 1
    /\ events = <<>>
    /\ lastStop = [n \in Names |-> "none"]
    /\ lookups = [n \in Names |-> 0]

\* ObserveDiskActivity, lines 62-65, d after the latest reading of the clock
LiveBeginCycle ==
    /\ pc = "idle"
    /\ \E snap \in Snapshots(host.disks),
          d \in 0..MaxStep,
          res \in [1..Len(config.Devices) -> Names \cup {""}],
          failAt \in 0..Len(config.Devices) :
          LET r     == resolveSymlinks(config, res, failAt)
              moved == clock + d - LiveNow
          IN
          /\ actualSnapshot' = snap
          /\ now' = LiveNow
          /\ clock' = LiveNow
          /\ lastNow' = Rebase(lastNow, moved)
          /\ previousSnapshots' = RebaseAll(previousSnapshots, moved)
          /\ config' = r.cfg
          /\ events' = r.ev
          /\ pc' = IF r.dead THEN "dead" ELSE "update"
    /\ idx' = 1
    /\ UNCHANGED <<host, lastStop, lookups>>

\* a cycle that begins later than the previous one began
Tick == LiveBeginCycle /\ lastNow' < now'

LiveNext == LiveBeginCycle \/ UpdateState \/ EndCycle

\* the polling loop never stops calling ObserveDiskActivity, every call runs
\* to its end, and time passes
LiveSpec ==
    /\ LiveInit
    /\ [][LiveNext]_vars
    /\ WF_vars(LiveBeginCycle)
    /\ WF_vars(UpdateState)
    /\ WF_vars(EndCycle)
    /\ SF_vars(Tick)

----------------------------------------------------------------------------
(* Vocabulary of the properties *)

Known(n) == previousDiskStatsIndex(previousSnapshots, n) >= 0
StateOf(n) == previousSnapshots[previousDiskStatsIndex(previousSnapshots, n) + 1]

\* the next step is the call of updateState for an entry naming n
Updating(n) ==
    /\ pc = "update"
    /\ idx <= Len(actualSnapshot)
    /\ actualSnapshot[idx].Name = n
Tmp == actualSnapshot[idx]

\* the entry about to be reconciled carries / does not carry n's stored counters
SameCounters(n) == Tmp.Reads = StateOf(n).Reads /\ Tmp.Writes = StateOf(n).Writes
\* the running cycle began more than skew_time after the previous one
Skewed == now - lastNow > config.SkewTime
\* the step ends the process (log.Fatalf)
Fatal == pc' = "dead"

\* every entry of the snapshot has been reconciled: the cycle is complete
CycleComplete == pc = "update" /\ idx > Len(actualSnapshot)

\* the entry that was reconciled last names n
JustUpdated(n) ==
    /\ pc = "update"
    /\ idx > 1
    /\ actualSnapshot[idx - 1].Name = n

\* how many events of one kind the trace holds for n
Emitted(ev, kind, n) ==
    Cardinality({i \in 1..Len(ev) : ev[i].kind = kind /\ ev[i].dev = n})

\* what one call of updateState adds to the trace
NewStops(n) == Emitted(events', "stop", n) - Emitted(events, "stop", n)
NewSpinups(n) == Emitted(events', "spinup", n) - Emitted(events, "spinup", n)
NewSkews(n) == Emitted(events', "skew", n) - Emitted(events, "skew", n)

----------------------------------------------------------------------------
(* C1 *)

\* C1 (as claimed): once a stop command has been issued for a device, and so
\* its spun_down flag set, no further stop command is issued for it until a
\* cycle in which its counters changed, whatever the gaps between the cycles.
C1_NoRepeatedSpinDown ==
    [][\A n \in Names :
          (Updating(n) /\ lastStop[n] # "none") => NewStops(n) = 0]_vars

\* C1 (amended): while spun_down is true no stop command is issued for the
\* device, and spun_down stays true through every cycle in which its
\* counters are unchanged and no skew is detected; it becomes false, and a
\* stop command possible again, only by a counter change or a detected skew.
C1_NoRepeatUnlessSkew ==
    [][\A n \in Names :
          (Updating(n) /\ Known(n) /\ StateOf(n).SpunDown) =>
              /\ NewStops(n) = 0
              /\ \/ StateOf(n)'.SpunDown
                 \/ ~SameCounters(n)
                 \/ Skewed]_vars

\* a device spun down in an earlier cycle has been reconciled again and is
\* still spun down, without a stop command in this cycle
C1_Witness ==
    \E n \in Names :
        /\ JustUpdated(n)
        /\ Known(n)
        /\ StateOf(n).SpunDown
        /\ StateOf(n).SpinDownAt < now
        /\ Emitted(events, "stop", n) = 0

----------------------------------------------------------------------------
(* C2 *)

\* C2 (as claimed): a known, running device with threshold T > 0 whose entry
\* carries unchanged counters gets no stop command and stays running when
\* now - last_io_at = T, and gets exactly one stop command, spun_down = true
\* and spin_down_at = now when now - last_io_at > T.
C2_ThresholdBoundary ==
    [][\A n \in Names :
          (/\ Updating(n) /\ Known(n)
           /\ StateOf(n).IdleTime > 0
           /\ ~StateOf(n).SpunDown
           /\ SameCounters(n)) =>
              /\ now - StateOf(n).LastIoAt = StateOf(n).IdleTime =>
                    NewStops(n) = 0 /\ ~StateOf(n)'.SpunDown
              /\ now - StateOf(n).LastIoAt > StateOf(n).IdleTime =>
                    /\ NewStops(n) = 1
                    /\ StateOf(n)'.SpunDown
                    /\ StateOf(n)'.SpinDownAt = now]_vars

\* C2 (amended): the same, the second half only in a cycle that detects no
\* skew (now - last_now <= skew_time).
C2_ThresholdBoundaryNoSkew ==
    [][\A n \in Names :
          (/\ Updating(n) /\ Known(n)
           /\ StateOf(n).IdleTime > 0
           /\ ~StateOf(n).SpunDown
           /\ SameCounters(n)) =>
              /\ now - StateOf(n).LastIoAt = StateOf(n).IdleTime =>
                    NewStops(n) = 0 /\ ~StateOf(n)'.SpunDown
              /\ (now - StateOf(n).LastIoAt > StateOf(n).IdleTime /\ ~Skewed) =>
                    /\ NewStops(n) = 1
                    /\ StateOf(n)'.SpunDown
                    /\ StateOf(n)'.SpinDownAt = now]_vars

\* in one cycle a device idle for exactly its threshold was left running and
\* another one, idle for longer, was stopped
C2_Witness ==
    /\ CycleComplete
    /\ \E a, b \in Names :
          /\ Known(a) /\ Known(b)
          /\ \E i, j \in 1..Len(actualSnapshot) :
                actualSnapshot[i].Name = a /\ actualSnapshot[j].Name = b
          /\ StateOf(a).IdleTime > 0
          /\ now - StateOf(a).LastIoAt = StateOf(a).IdleTime
          /\ ~StateOf(a).SpunDown
          /\ StateOf(b).SpunDown
          /\ StateOf(b).SpinDownAt = now
          /\ Emitted(events, "stop", b) = 1

----------------------------------------------------------------------------
(* C3 *)

\* C3: a device whose runtime idle_time is 0 is never spun down: its flag is
\* false, its spin_down_at was never set and no stop command was issued for it.
C3_ZeroThresholdDisables ==
    \A n \in Names :
        (Known(n) /\ StateOf(n).IdleTime = 0) =>
            /\ ~StateOf(n).SpunDown
            /\ StateOf(n).SpinDownAt = ZeroTime
            /\ Emitted(events, "stop", n) = 0
            /\ lastStop[n] = "none"

\* a device with threshold 0 has just been reconciled after four ticks
\* without I/O
C3_Witness ==
    \E n \in Names :
        /\ JustUpdated(n)
        /\ Known(n)
        /\ StateOf(n).IdleTime = 0
        /\ now - StateOf(n).LastIoAt >= 4

----------------------------------------------------------------------------
(* C4 *)

\* C4 (as claimed): reconciling a spun-down device whose entry carries changed
\* counters emits exactly one spin-up event and no stop command and ends with
\* spun_down = false, spin_up_at = last_io_at = now and the entry's counters
\* stored (in every cycle the process survives).
C4_SpinUpDetection ==
    [][\A n \in Names :
          (/\ Updating(n) /\ Known(n)
           /\ StateOf(n).SpunDown
           /\ ~SameCounters(n)
           /\ ~Fatal) =>
              /\ NewSpinups(n) = 1
              /\ NewStops(n) = 0
              /\ ~StateOf(n)'.SpunDown
              /\ StateOf(n)'.SpinUpAt = now
              /\ StateOf(n)'.LastIoAt = now
              /\ StateOf(n)'.Reads = Tmp.Reads
              /\ StateOf(n)'.Writes = Tmp.Writes]_vars

\* C4 (amended): the same in a cycle that detects no skew; in a cycle that
\* detects a skew the end state is the same but the device gets the skew
\* event and no spin-up event.  A device that is not spun down never gets a
\* spin-up event.
C4_SpinUpDetectionNoSkew ==
    [][\A n \in Names :
          /\ (/\ Updating(n) /\ Known(n)
              /\ StateOf(n).SpunDown
              /\ ~SameCounters(n)
              /\ ~Fatal) =>
                 /\ NewSpinups(n) = (IF Skewed THEN 0 ELSE 1)
                 /\ NewSkews(n) = (IF Skewed THEN 1 ELSE 0)
                 /\ NewStops(n) = 0
                 /\ ~StateOf(n)'.SpunDown
                 /\ StateOf(n)'.SpinUpAt = now
                 /\ StateOf(n)'.LastIoAt = now
                 /\ StateOf(n)'.Reads = Tmp.Reads
                 /\ StateOf(n)'.Writes = Tmp.Writes
          /\ (Updating(n) /\ Known(n) /\ ~StateOf(n).SpunDown) =>
                 NewSpinups(n) = 0]_vars

\* a spin-up was detected: the device was stopped in an earlier cycle, and
\* this cycle logged its spin-up and stored the new counters
C4_Witness ==
    \E n \in Names :
        /\ JustUpdated(n)
        /\ Known(n)
        /\ events # <<>>
        /\ events[Len(events)] = Event("spinup", n, "", TRUE)
        /\ StateOf(n).SpinDownAt # ZeroTime
        /\ StateOf(n).SpinDownAt < now
        /\ ~StateOf(n).SpunDown
        /\ StateOf(n).SpinUpAt = now
        /\ StateOf(n).LastIoAt = now
        /\ StateOf(n).Writes = 1

----------------------------------------------------------------------------
(* C5 *)

SnapshotNames == {actualSnapshot[i].Name : i \in 1..Len(actualSnapshot)}

\* C5: at the end of a cycle that began more than skew_time after the
\* previous one, every tracked device is running, and one the snapshot does
\* not name (so one that was tracked when the cycle began) has spin_up_at =
\* last_io_at = now and exactly one skew event; a cycle that began within
\* skew_time emits no skew event.
C5_SkewResetsEveryTrackedDevice ==
    CycleComplete =>
        IF Skewed
        THEN \A n \in Names :
                Known(n) =>
                    /\ ~StateOf(n).SpunDown
                    /\ n \notin SnapshotNames =>
                          /\ StateOf(n).SpinUpAt = now
                          /\ StateOf(n).LastIoAt = now
                          /\ Emitted(events, "skew", n) = 1
        ELSE \A n \in Names : Emitted(events, "skew", n) = 0

----------------------------------------------------------------------------
(* C6 *)

\* C6: the call of updateState for a name without runtime state appends a
\* state with the entry's counters, spun_down = false and last_io_at =
\* spin_up_at = now, and emits nothing, with or without skew.
C6_FirstSighting ==
    [][\A n \in Names :
          (Updating(n) /\ ~Known(n)) =>
              /\ Known(n)'
              /\ Len(previousSnapshots') = Len(previousSnapshots) + 1
              /\ StateOf(n)'.Reads = Tmp.Reads
              /\ StateOf(n)'.Writes = Tmp.Writes
              /\ ~StateOf(n)'.SpunDown
              /\ StateOf(n)'.LastIoAt = now
              /\ StateOf(n)'.SpinUpAt = now
              /\ events' = events]_vars

----------------------------------------------------------------------------
(* C7 *)

\* the step issues a stop command for n that fails
FailedStop(n) ==
    /\ NewStops(n) = 1
    /\ events'[Len(events')] = Event("stop", n, StateOf(n).CommandType, FALSE)

\* a failed stop command still marks the device spun down at now and the
\* loop goes on to the next entry of the same snapshot
C7_FailureKeepsTransition(n) ==
    (Updating(n) /\ Known(n) /\ FailedStop(n)) =>
        /\ StateOf(n)'.SpunDown
        /\ StateOf(n)'.SpinDownAt = now
        /\ lastStop'[n] = "failed"
        /\ pc' = "update"
        /\ idx' = idx + 1
        /\ actualSnapshot' = actualSnapshot

\* C7 (as claimed): a failed stop command does not block the transition nor
\* the loop, and the command is not issued again while the counters stay
\* unchanged.
C7_FailedStopNotRetried ==
    [][\A n \in Names :
          /\ C7_FailureKeepsTransition(n)
          /\ (Updating(n) /\ lastStop[n] = "failed") => NewStops(n) = 0]_vars

\* C7 (amended): a failed stop command does not block the transition nor the
\* loop, and the command is not issued again while the counters stay
\* unchanged and no skew is detected: the device stays marked spun down, and
\* gets no stop command, until its counters change or a cycle detects a skew.
C7_FailedStopNotRetriedUnlessSkew ==
    [][\A n \in Names :
          /\ C7_FailureKeepsTransition(n)
          /\ (/\ Updating(n) /\ Known(n)
              /\ lastStop[n] = "failed"
              /\ StateOf(n).SpunDown) =>
                 /\ NewStops(n) = 0
                 /\ \/ StateOf(n)'.SpunDown /\ lastStop'[n] = "failed"
                    \/ ~SameCounters(n)
                    \/ Skewed]_vars

\* the stop command of one device failed, the device is marked spun down and
\* the next entry of the snapshot, another device, has been reconciled
C7_Witness ==
    \E a, b \in Names :
        /\ a # b
        /\ JustUpdated(b)
        /\ idx = 3
        /\ actualSnapshot[1].Name = a
        /\ Known(a)
        /\ events # <<>>
        /\ events[1] = Event("stop", a, StateOf(a).CommandType, FALSE)
        /\ StateOf(a).SpunDown
        /\ StateOf(a).SpinDownAt = now
        /\ lastStop[a] = "failed"

----------------------------------------------------------------------------
(* C8 *)

\* the override entries whose canonical name is n
Overrides(n) == {i \in 1..Len(config.Devices) : config.Devices[i].Name = n}
FirstOverride(n) ==
    config.Devices[CHOOSE i \in Overrides(n) : \A j \in Overrides(n) : i <= j]

\* C8: a first observation caches the idle threshold and the protocol of the
\* override named like the device when there is one, else those of the
\* defaults, and changes neither the configuration nor another runtime state.
C8_LookupPrecedence ==
    [][\A n \in Names :
          (Updating(n) /\ ~Known(n)) =>
              /\ Known(n)'
              /\ IF Overrides(n) # {}
                 THEN /\ StateOf(n)'.IdleTime = FirstOverride(n).Idle
                      /\ StateOf(n)'.CommandType = FirstOverride(n).CommandType
                 ELSE /\ StateOf(n)'.IdleTime = config.Defaults.Idle
                      /\ StateOf(n)'.CommandType = config.Defaults.CommandType
              /\ config' = config
              /\ SubSeq(previousSnapshots', 1, Len(previousSnapshots))
                    = previousSnapshots]_vars

\* a device was first observed under an override whose threshold and
\* protocol both differ from the non-zero defaults, and carries the override's
C8_Witness ==
    \E n \in Names :
        /\ JustUpdated(n)
        /\ Known(n)
        /\ Overrides(n) # {}
        /\ config.Defaults.Idle # 0
        /\ FirstOverride(n).Idle # 0
        /\ FirstOverride(n).Idle # config.Defaults.Idle
        /\ FirstOverride(n).CommandType # config.Defaults.CommandType
        /\ StateOf(n).IdleTime = FirstOverride(n).Idle
        /\ StateOf(n).CommandType = FirstOverride(n).CommandType

----------------------------------------------------------------------------
(* C9 *)

\* C9 (as claimed): a tracked device runs with the defaults while no
\* override carries its name, and with the override's threshold and protocol
\* from the cycle on in which an override is resolved to its name.
C9_ResolvedOverrideApplies ==
    \A n \in Names :
        (Known(n) /\ pc # "dead") =>
            IF Overrides(n) # {}
            THEN /\ StateOf(n).IdleTime = FirstOverride(n).Idle
                 /\ StateOf(n).CommandType = FirstOverride(n).CommandType
            ELSE /\ StateOf(n).IdleTime = config.Defaults.Idle
                 /\ StateOf(n).CommandType = config.Defaults.CommandType

\* C9 (amended): an override whose canonical name is empty affects no
\* device; once it is resolved to D, a D first observed in that cycle or
\* later runs with the override's threshold and protocol, and a D that was
\* already tracked keeps the pair it cached at its first observation.
C9_ResolvedOverrideAppliesToNewDevices ==
    [][\A n \in Names :
          /\ (Updating(n) /\ ~Known(n)) =>
                IF \E i \in 1..Len(config.Devices) : config.Devices[i].Name = n
                THEN /\ StateOf(n)'.IdleTime = FirstOverride(n).Idle
                     /\ StateOf(n)'.CommandType = FirstOverride(n).CommandType
                ELSE /\ StateOf(n)'.IdleTime = config.Defaults.Idle
                     /\ StateOf(n)'.CommandType = config.Defaults.CommandType
          /\ Known(n) =>
                /\ Known(n)'
                /\ StateOf(n)'.IdleTime = StateOf(n).IdleTime
                /\ StateOf(n)'.CommandType = StateOf(n).CommandType]_vars

\* an override was resolved in this cycle to a device that was tracked
\* before; the device has been reconciled and still runs with the defaults,
\* which differ from the override
C9_Witness ==
    \E n \in Names :
        /\ JustUpdated(n)
        /\ Known(n)
        /\ Emitted(events, "symlink", n) = 1
        /\ Overrides(n) # {}
        /\ StateOf(n).LastIoAt < now
        /\ StateOf(n).IdleTime = config.Defaults.Idle
        /\ StateOf(n).CommandType = config.Defaults.CommandType
        /\ FirstOverride(n).Idle # config.Defaults.Idle

----------------------------------------------------------------------------
(* C10 *)

\* C10: within a cycle the symlinks are resolved before anything else (no
\* call of updateState touches the configuration or logs a resolution), and
\* the reset of a device after a detected skew happens before the entry of
\* any other device has been reconciled; a cycle begins only when the
\* previous one has ended.
C10_OrderWithinCycle ==
    [][/\ pc = "update" =>
            /\ config' = config
            /\ \A n \in Names :
                  Emitted(events', "symlink", n) <= Emitted(events, "symlink", n)
       /\ \A n \in Names :
             (Updating(n) /\ NewSkews(n) > 0) =>
                 \A j \in 1..(idx - 1) : actualSnapshot[j].Name = n
       /\ now' # now => pc = "idle"]_vars

----------------------------------------------------------------------------
(* C11 *)

\* the entries of the running cycle's snapshot that have been reconciled
Reconciled == {actualSnapshot[j].Name : j \in 1..(idx - 1)}

\* C11: in a cycle that began more than skew_time after the previous one no
\* stop command is issued, whatever the counters of the entries and however
\* long the devices had been idle, and every device whose entry has been
\* reconciled is marked running (also when the log sink ended the process).
C11_NoSpinDownInSkewCycle ==
    (pc # "idle" /\ Skewed) =>
        /\ \A n \in Names : Emitted(events, "stop", n) = 0
        /\ \A n \in Reconciled : Known(n) /\ ~StateOf(n).SpunDown

\* a skew cycle is complete in which a device that had been stopped in an
\* earlier cycle was reconciled with unchanged counters: it got the skew
\* event, no stop command, and is marked running
C11_Witness ==
    /\ CycleComplete
    /\ Skewed
    /\ \E n \in Reconciled :
          /\ Known(n)
          /\ StateOf(n).IdleTime > 0
          /\ StateOf(n).SpinDownAt # ZeroTime
          /\ StateOf(n).SpinDownAt < now
          /\ Emitted(events, "skew", n) >= 1
          /\ Emitted(events, "stop", n) = 0
          /\ ~StateOf(n).SpunDown
          /\ \A j \in 1..Len(actualSnapshot) :
                actualSnapshot[j].Name = n =>
                    /\ actualSnapshot[j].Reads = StateOf(n).Reads
                    /\ actualSnapshot[j].Writes = StateOf(n).Writes

----------------------------------------------------------------------------
(* C12 *)

\* n is tracked with a non-zero idle threshold, the process is alive, and the
\* snapshot of the running cycle names n with the stored counters only
Quiet(n) ==
    /\ Known(n)
    /\ StateOf(n).IdleTime # 0
    /\ pc # "dead"
    /\ pc = "update" =>
          /\ n \in SnapshotNames
          /\ \A j \in 1..Len(actualSnapshot) :
                actualSnapshot[j].Name = n =>
                    /\ actualSnapshot[j].Reads = StateOf(n).Reads
                    /\ actualSnapshot[j].Writes = StateOf(n).Writes

\* C12 (as claimed): when the counters of a tracked device with a non-zero
\* threshold stop changing from some cycle on, while cycles keep occurring
\* and the clock keeps advancing, a stop command is eventually issued for it
\* after its counters last changed.
C12_EventuallySpunDown ==
    \A n \in Names : <>[]Quiet(n) => <>[](lastStop[n] # "none")

\* C12 (amended): the same provided that, from some cycle on, no cycle
\* detects a skew; the device then stays marked spun down.
C12_EventuallySpunDownNoSkew ==
    \A n \in Names :
        (<>[]Quiet(n) /\ <>[]~Skewed) =>
            <>[](lastStop[n] # "none" /\ StateOf(n).SpunDown)

\* a device left alone for longer than its threshold has just been stopped
C12_Witness ==
    \E n \in Names :
        /\ JustUpdated(n)
        /\ Quiet(n)
        /\ ~Skewed
        /\ Emitted(events, "stop", n) = 1
        /\ lastStop[n] # "none"
        /\ StateOf(n).SpunDown
        /\ StateOf(n).SpinDownAt = now
        /\ now - StateOf(n).LastIoAt > StateOf(n).IdleTime

----------------------------------------------------------------------------
(* C13 *)

\* the events that go to the log sink
LogKinds == {"symlink", "spinup", "skew"}

\* C13: with a log file configured, an event whose line the sink did not
\* take is the last thing the process did: the step that sent it ends the
\* process, and a process that has ended takes no step, so no later entry of
\* the snapshot is reconciled and no further cycle begins.
C13_LogSinkFailureIsFatal ==
    [][/\ pc # "dead"
       /\ \A i \in 1..Len(events') :
             (/\ events'[i].kind \in LogKinds
              /\ ~events'[i].ok
              /\ config.Defaults.LogFile # "") =>
                 pc' = "dead" /\ i = Len(events')]_vars

\* the log line of the first of two entries was refused: the process has
\* ended with the second entry not reconciled
C13_Witness ==
    /\ pc = "dead"
    /\ config.Defaults.LogFile # ""
    /\ Len(actualSnapshot) = 2
    /\ idx = 2
    /\ events # <<>>
    /\ events[Len(events)].kind \in {"spinup", "skew"}
    /\ ~events[Len(events)].ok

----------------------------------------------------------------------------
(* C14 *)

\* C14: no step changes the idle_time or the command_type of a runtime state
\* that exists, whatever the step does to the configuration, and deviceConfig
\* has been called once for every tracked device and never for another.
C14_ConfigurationCachedOnce ==
    [][\A n \in Names :
          /\ Known(n) =>
                /\ Known(n)'
                /\ StateOf(n)'.IdleTime = StateOf(n).IdleTime
                /\ StateOf(n)'.CommandType = StateOf(n).CommandType
          /\ lookups'[n] = (IF Known(n)' THEN 1 ELSE 0)]_vars

\* a cycle is complete that resolved an override to a tracked device and
\* reconciled the device: it still carries the protocol it was created with,
\* which is not the override's, after its one lookup
C14_Witness ==
    /\ CycleComplete
    /\ \E n \in SnapshotNames :
          /\ Known(n)
          /\ Overrides(n) # {}
          /\ Emitted(events, "symlink", n) = 1
          /\ StateOf(n).SpinUpAt < now
          /\ StateOf(n).CommandType # FirstOverride(n).CommandType
          /\ lookups[n] = 1

----------------------------------------------------------------------------
(* C15 *)

\* what io.RealPath may answer for the override entries of cfg
Resolutions(cfg) == [1..Len(cfg.Devices) -> Names \cup {""}]

\* one run of the resolver over cfg with the answers res (the log sink
\* working): only entries without a canonical name are touched, such an
\* entry gets the answer as its name when there is one and the policy is
\* enabled and is left as it is otherwise, and a second run with the same
\* answers changes nothing
ResolverIdempotent(cfg) ==
    \A res \in Resolutions(cfg) :
        LET once  == resolveSymlinks(cfg, res, 0).cfg
            twice == resolveSymlinks(once, res, 0).cfg
        IN /\ twice = once
           /\ once = [cfg EXCEPT !.Devices = once.Devices]
           /\ Len(once.Devices) = Len(cfg.Devices)
           /\ \A i \in 1..Len(cfg.Devices) :
                 once.Devices[i] =
                     IF /\ cfg.Devices[i].Name = ""
                        /\ res[i] # ""
                        /\ cfg.Defaults.SymlinkPolicy # 0
                     THEN [cfg.Devices[i] EXCEPT !.Name = res[i]]
                     ELSE cfg.Devices[i]

\* how many entries a step gives a canonical name, and how many resolutions
\* the trace holds
NewlyResolved ==
    Cardinality({i \in 1..Len(config.Devices) :
                    config.Devices[i].Name = "" /\ config'.Devices[i].Name # ""})
Resolved(ev) == Cardinality({i \in 1..Len(ev) : ev[i].kind = "symlink"})

\* C15: the resolver is idempotent on every configuration the program
\* reaches, in every cycle; a step of the program changes the configuration
\* only when a cycle begins, changes only entries whose canonical name was
\* empty, changes nothing with the symlink policy disabled, and logs one
\* resolution per entry it names.
C15_ResolverIdempotent ==
    [][/\ ResolverIdempotent(config)
       /\ ResolverIdempotent(config')
       /\ config' # config => pc = "idle" /\ config.Defaults.SymlinkPolicy # 0
       /\ config' = [config EXCEPT !.Devices = config'.Devices]
       /\ Len(config'.Devices) = Len(config.Devices)
       /\ \A i \in 1..Len(config.Devices) :
             \/ config'.Devices[i] = config.Devices[i]
             \/ /\ config.Devices[i].Name = ""
                /\ config'.Devices[i].Name # ""
                /\ config'.Devices[i] =
                      [config.Devices[i] EXCEPT !.Name = config'.Devices[i].Name]
       /\ pc = "idle" => Resolved(events') = NewlyResolved]_vars

\* an override that an earlier cycle could not resolve has been resolved at
\* the beginning of this one
C15_Witness ==
    /\ pc = "update"
    /\ idx = 1
    /\ previousSnapshots # <<>>
    /\ events # <<>>
    /\ events[1].kind = "symlink"
    /\ events[1].ok
    /\ config.Devices # <<>>
    /\ config.Devices[1].Name = events[1].dev

----------------------------------------------------------------------------
(* C16 *)

\* the names that have a runtime state, read off the list itself
Tracked(ps) == {ps[i].Name : i \in 1..Len(ps)}

\* C16: a step never removes or renames a runtime state, so the tracked
\* names only grow; no two runtime states share a name, also when a snapshot
\* lists a name twice; and when a cycle is complete every name of its
\* snapshot is tracked.
C16_StatesCreatedOnceNeverDeleted ==
    [][/\ Len(previousSnapshots') >= Len(previousSnapshots)
       /\ \A i \in 1..Len(previousSnapshots) :
             previousSnapshots'[i].Name = previousSnapshots[i].Name
       /\ Tracked(previousSnapshots) \subseteq Tracked(previousSnapshots')
       /\ \A i, j \in 1..Len(previousSnapshots') :
             previousSnapshots'[i].Name = previousSnapshots'[j].Name => i = j
       /\ CycleComplete' => SnapshotNames' \subseteq Tracked(previousSnapshots')]_vars

\* a cycle is complete whose snapshot listed twice a name that had no
\* runtime state: there is one state of that name
C16_Witness ==
    /\ CycleComplete
    /\ Len(actualSnapshot) = 2
    /\ actualSnapshot[1].Name = actualSnapshot[2].Name
    /\ Len(previousSnapshots) = 1
    /\ previousSnapshots[1].Name = actualSnapshot[1].Name
    /\ previousSnapshots[1].SpinUpAt >= now
    /\ events = <<>>
    /\ lookups[actualSnapshot[1].Name] = 1

----------------------------------------------------------------------------
(* C17 *)

\* C17: in a cycle that detects no skew, reconciling a spun-down device
\* whose entry carries the stored counters changes no runtime state (so none
\* of the device's fields), emits nothing and lets the loop go on.
C17_SpunDownUnchangedIsNoOp ==
    [][\A n \in Names :
          (/\ Updating(n) /\ Known(n)
           /\ StateOf(n).SpunDown
           /\ SameCounters(n)
           /\ now - lastNow <= config.SkewTime) =>
              /\ StateOf(n)' = StateOf(n)
              /\ previousSnapshots' = previousSnapshots
              /\ events' = events
              /\ lastStop' = lastStop
              /\ pc' = "update"]_vars

\* a device stopped in an earlier cycle has been reconciled with its stored
\* counters, one skew time after the previous cycle: it is as it was
C17_Witness ==
    \E n \in Names :
        /\ JustUpdated(n)
        /\ Known(n)
        /\ now - lastNow = config.SkewTime
        /\ StateOf(n).SpunDown
        /\ StateOf(n).SpinDownAt <= lastNow
        /\ actualSnapshot[idx - 1].Reads = StateOf(n).Reads
        /\ actualSnapshot[idx - 1].Writes = StateOf(n).Writes
        /\ events = <<>>

----------------------------------------------------------------------------
(* C18 *)

\* C18 (command_type being one of the two protocols the configuration
\* offers): a step that turns the spun_down flag of a device from false to
\* true is the reconciliation of an entry of that device and hands exactly
\* one stop command to sgio, for that device, in the protocol of its
\* command_type; and a device marked spun down has had a stop command sent
\* since its counters last changed.
C18_ProtocolDispatch ==
    [][\A n \in Names :
          /\ (Known(n) /\ ~StateOf(n).SpunDown /\ StateOf(n)'.SpunDown) =>
                /\ Updating(n)
                /\ NewStops(n) = 1
                /\ Len(events') = Len(events) + 1
                /\ events'[Len(events')].kind = "stop"
                /\ events'[Len(events')].dev = n
                /\ StateOf(n).CommandType = SCSI => events'[Len(events')].cmd = SCSI
                /\ StateOf(n).CommandType = ATA => events'[Len(events')].cmd = ATA
                /\ \A m \in Names \ {n} : NewStops(m) = 0
          /\ (Known(n)' /\ StateOf(n)'.SpunDown) => lastStop'[n] \in {"ok", "failed"}
          /\ (Known(n) /\ NewStops(n) > 0) =>
                ~StateOf(n).SpunDown /\ StateOf(n)'.SpunDown]_vars

\* a disk configured for the ATA protocol has just been stopped with the ATA
\* command
C18_Witness ==
    \E n \in Names :
        /\ JustUpdated(n)
        /\ Known(n)
        /\ StateOf(n).CommandType = ATA
        /\ StateOf(n).SpunDown
        /\ StateOf(n).SpinDownAt = now
        /\ events # <<>>
        /\ events[Len(events)] = Event("stop", n, ATA, TRUE)
        /\ lastStop[n] = "ok"

----------------------------------------------------------------------------
(* C19 *)

\* C19: every runtime state has spin_up_at <= last_io_at, and one that is
\* marked spun down has a non-zero idle_time and spin_down_at - last_io_at >
\* idle_time, so that spin_up_at <= last_io_at < spin_down_at <= now and the
\* two durations of a spin-up event (spin_down_at - spin_up_at, and the time
\* since spin_down_at) are not negative.
C19_TimestampOrdering ==
    \A n \in Names :
        Known(n) =>
            /\ StateOf(n).SpinUpAt <= StateOf(n).LastIoAt
            /\ StateOf(n).SpunDown =>
                  /\ StateOf(n).IdleTime # 0
                  /\ StateOf(n).SpinDownAt - StateOf(n).LastIoAt > StateOf(n).IdleTime
                  /\ StateOf(n).LastIoAt < StateOf(n).SpinDownAt
                  /\ StateOf(n).SpinDownAt <= now
                  /\ StateOf(n).SpinDownAt - StateOf(n).SpinUpAt >= 0
                  /\ clock - StateOf(n).SpinDownAt >= 0

----------------------------------------------------------------------------
(* C20 *)

\* C20: only the reconciliation of an entry naming a device changes that
\* device's runtime state or produces a stop command, a spin-up event or a
\* skew event for it, so a cycle whose snapshot does not name a tracked
\* device leaves it alone, with or without skew; and last_now changes only
\* at the end of a cycle, to that cycle's now.
C20_OnlySnapshotDevicesTouched ==
    [][/\ \A n \in Names :
             (Known(n) /\ ~Updating(n)) =>
                 /\ Known(n)'
                 /\ StateOf(n)' = StateOf(n)
                 /\ Emitted(events', "stop", n) <= Emitted(events, "stop", n)
                 /\ Emitted(events', "spinup", n) <= Emitted(events, "spinup", n)
                 /\ Emitted(events', "skew", n) <= Emitted(events, "skew", n)
       /\ (pc = "update" /\ pc' = "idle") => lastNow' = now /\ now' = now
       /\ lastNow' # lastNow => pc = "update" /\ pc' = "idle"]_vars

\* a cycle that detected a skew is complete: the device its snapshot names
\* was reset, the tracked device it does not name is as it was
C20_Witness ==
    /\ CycleComplete
    /\ Skewed
    /\ \E n, m \in Names :
          /\ Known(n) /\ Known(m)
          /\ n \notin SnapshotNames
          /\ m \in SnapshotNames
          /\ Emitted(events, "skew", m) = 1
          /\ StateOf(m).LastIoAt = now
          /\ Emitted(events, "skew", n) = 0
          /\ StateOf(n).LastIoAt < now
          /\ StateOf(n).SpinUpAt < now

====
